---------------------------- MODULE Spec2Model ----------------------------
(***************************************************************************)
(* A model of enaml/core/expression_engine.py: HandlerPair, HandlerSet and *)
(* ExpressionEngine.  Engine methods call back into user supplied handlers *)
(* (readers, writers, and the owner's attribute setter), which may call    *)
(* the engine again before they return.  The model therefore keeps the     *)
(* synchronous call stack explicitly: one frame per engine call that is    *)
(* currently inside a handler, and one step per handler boundary.          *)
(***************************************************************************)
EXTENDS Naturals, Sequences, FiniteSets

(* ------------------------------ bounds -------------------------------- *)
\* number of add_pair calls in one behaviour
MaxAdds == 2
\* number of engine calls the handlers make while one outermost call runs
MaxCalls == 1

(* ------------------------------ inputs -------------------------------- *)
\* the ExpressionEngine objects: engine 1 is the original, engine 2 its copy
Engines == {1, 2}
Owners == {"o1", "o2"}
Names == {"x", "y"}
Changes == {"c1", "c2"}
\* values a reader evaluates to; "null" is the null-like value (None)
Values == {"null", "v1"}
\* Python's None, for an unset Typed member
None == "None"
\* the "no binding" sentinel returned by read
NotImplemented == "NotImplemented"

\* The HandlerPair objects handed to the engine: A reads and writes, B only
\* writes, C only reads, D has neither handler.
HandlerPair ==
    [A |-> [reader |-> "A.reader", writer |-> "A.writer"],
     B |-> [reader |-> None, writer |-> "B.writer"],
     C |-> [reader |-> "C.reader", writer |-> None],
     D |-> [reader |-> None, writer |-> None]]
Pairs == DOMAIN HandlerPair

(* ------------------------------- state -------------------------------- *)
VARIABLES
    nEngines,   \* engines constructed so far; engine 1 is the original
    handlers,   \* handlers[e]: the _handlers map of engine e, name -> HandlerSet
    lists,      \* the heap of list objects: lists[ref] is the list's content
    guards,     \* guards[e]: the _guards set of engine e
    nAdds,      \* add_pair calls made so far
    stack,      \* the engine calls currently inside a handler, outermost first
    exc,        \* an exception is propagating into the top frame's handler
    calls,      \* engine calls made by handlers since the outermost call began
    last,       \* the engine call that has just completed, if any
    bound       \* history: bound[e][name] is the sequence of pairs bound so far

vars ==
    <<nEngines, handlers, lists, guards, nAdds, stack, exc, calls, last, bound>>

\* A list object is identified by the HandlerSet that created it.
ListRefs == Engines \X Names \X {"write_pairs", "all_pairs"}

\* HandlerSet(): read_pair unset, and two fresh empty lists of its own.
HandlerSet(e, name) ==
    [read_pair |-> None,
     write_pairs |-> <<e, name, "write_pairs">>,
     all_pairs |-> <<e, name, "all_pairs">>]

NoLog == <<>>

\* sortedmap(): no keys
sortedmap == [n \in {} |-> None]

\* _handlers.get(name) is not None
Has(map, name) == name \in DOMAIN map

\* The record of a completed engine call: what was called, how it ended
\* ("ok" or "raise"), what it returned (val), what the reader it ran returned
\* (hval), the handlers it considered (log), and the setattr it performed on
\* the owner (NoSetattr, or the owner, name and value assigned).
Done(op, e, owner, name, change, outcome, val, hval, log, setattr) ==
    [op |-> op, eng |-> e, owner |-> owner, name |-> name, change |-> change,
     outcome |-> outcome, val |-> val, hval |-> hval, log |-> log,
     setattr |-> setattr]

NoSetattr == <<>>
NoCall == Done("none", 0, None, None, None, "ok", None, None, NoLog, NoSetattr)

\* An engine call that is inside a handler: pc tells which handler ("writer",
\* "reader", or "notify" for the owner's setattr and the change notification
\* it dispatches), pair whose handler it is, args what the handler was
\* called with, idx the position in write_pairs.
Frame(op, e, owner, name, change, pc, pair, args, idx, log) ==
    [op |-> op, eng |-> e, owner |-> owner, name |-> name, change |-> change,
     pc |-> pc, pair |-> pair, args |-> args, idx |-> idx, log |-> log,
     hval |-> None, setattr |-> NoSetattr]

\* Log entries: a handler that was invoked ("run" while it is running, then
\* "ok" or "raise"), or a pair that was skipped because its key was guarded.
Ran(pair, args) == [pair |-> pair, out |-> "run", args |-> args]
Skipped(pair) == [pair |-> pair, out |-> "skip", args |-> <<>>]
Mark(log, out) == [log EXCEPT ![Len(log)].out = out]

Init ==
    /\ nEngines = 1
    /\ handlers = [e \in Engines |-> sortedmap]
    /\ lists = [r \in ListRefs |-> <<>>]
    /\ guards = [e \in Engines |-> {}]
    /\ nAdds = 0
    /\ stack = <<>>
    /\ exc = FALSE
    /\ calls = 0
    /\ last = NoCall
    /\ bound = [e \in Engines |-> [n \in Names |-> <<>>]]

(* ------------------------- the call stack ----------------------------- *)
Top == stack[Len(stack)]
Below == SubSeq(stack, 1, Len(stack) - 1)

\* An engine method can be called from outside (empty stack) or by the
\* handler that is running, unless an exception is passing through it.
CanCall == ~exc /\ (stack = <<>> \/ calls < MaxCalls)

\* the handlers' engine calls, this one included
Counted == IF stack = <<>> THEN 0 ELSE calls + 1

\* ... once the call on top of the stack has returned or raised
Settled == IF Below = <<>> THEN 0 ELSE calls

(* ------------------------- HandlerSet --------------------------------- *)
\* Fault: the new HandlerSet keeps references to the original's two lists.
HandlerSet_copy_aliased(hs, e, name, heap) ==
    [set |-> hs, lists |-> heap]

\* HandlerSet.copy: read_pair is shared; write_pairs and all_pairs are List
\* members, and assigning a list to a List member stores a new list with the
\* same items ("a copy of the handler set with independent lists").
HandlerSet_copy(hs, e, name, heap) ==
    LET new == HandlerSet(e, name)
    IN  [set |-> [new EXCEPT !.read_pair = hs.read_pair],
         lists |-> [heap EXCEPT ![new.write_pairs] = heap[hs.write_pairs],
                                ![new.all_pairs] = heap[hs.all_pairs]]]

(* ------------------------- ExpressionEngine --------------------------- *)
\* Fault: the engine is true only if some HandlerSet holds a handler.
nonzero_has_handler(e) ==
    \E n \in DOMAIN handlers[e] :
       \/ handlers[e][n].read_pair # None
       \/ lists[handlers[e][n].write_pairs] # <<>>

\* ExpressionEngine.__nonzero__: len(self._handlers) > 0
__nonzero__(e) == Cardinality(DOMAIN handlers[e]) > 0

\* Fault: the pair is inserted at the front of the list.
Prepended(list, pair) == <<pair>> \o list

\* Fault: a pair that is already in the list is not added again.
AppendedOnce(list, pair) ==
    IF \E i \in 1..Len(list) : list[i] = pair THEN list ELSE Append(list, pair)

\* list.append(pair)
Appended(list, pair) == Append(list, pair)

\* Fault: read_pair is set whether or not the pair has a reader.
SetReadPairAlways(hs, pair) == [hs EXCEPT !.read_pair = pair]

\* if pair.reader is not None: handler.read_pair = pair
SetReadPair(hs, pair) ==
    IF HandlerPair[pair].reader # None THEN [hs EXCEPT !.read_pair = pair]
    ELSE hs

\* Fault: the test of read_pair is missing.
BoundUnchecked(map, name) == Has(map, name)

\* handler is not None, and its read_pair is not None
Bound(map, name) == Has(map, name) /\ map[name].read_pair # None

\* Fault: "return result or NotImplemented".
ReadResultOr(v) == IF v = "null" THEN NotImplemented ELSE v

\* return pair.reader(owner, name)
ReadResult(v) == v

\* Fault: the key is the pair alone, whoever the owner is.
KeyOfPair(owner, pair) == <<"any", pair>>

\* the guard key of write and of update
Key(owner, pair) == <<owner, pair>>

\* Fault: the key is not added.
AcquireNothing(g, key) == g

\* guards.add(key)
Acquire(g, key) == g \cup {key}

\* Fault: guards.clear() in place of guards.remove(key).
ReleaseAll(g, key) == {}

\* Fault: a call made by a handler keeps its keys; only an outermost call
\* removes its key.
ReleaseOuterOnly(g, key) == IF Len(stack) > 1 THEN g ELSE g \ {key}

\* Fault: the key is never removed.
ReleaseLeak(g, key) == g

\* the finally clause: guards.remove(key), on return and on error alike
Release(g, key) == g \ {key}

\* Fault: the copy starts with the keys of the engine it was copied from.
NewGuardsCopied(g, e, new) == [g EXCEPT ![new] = g[e]]

\* ExpressionEngine(): the new engine's _guards is a fresh empty set
NewGuards(g, e, new) == [g EXCEPT ![new] = {}]

\* Fault: the for loop of write without the test "key not in guards".
ScanUnguarded(wp, i, owner, g, log) ==
    IF i > Len(wp) THEN [run |-> FALSE, idx |-> i, log |-> log]
    ELSE [run |-> TRUE, idx |-> i, log |-> log]

\* The for loop of write, from position i up to the first pair whose key is
\* not guarded (run = TRUE, idx its position) or to the end of the list.
RECURSIVE Scan(_, _, _, _, _)
Scan(wp, i, owner, g, log) ==
    IF i > Len(wp) THEN [run |-> FALSE, idx |-> i, log |-> log]
    ELSE IF Key(owner, wp[i]) \in g
         THEN Scan(wp, i + 1, owner, g, Append(log, Skipped(wp[i])))
         ELSE [run |-> TRUE, idx |-> i, log |-> log]

\* the arguments write passes to a writer, and read/update to a reader
WriterArgs(owner, name, change) == <<owner, name, change>>
ReaderArgs(owner, name) == <<owner, name>>

add_pair(e, name, pair) ==
    /\ CanCall
    /\ e <= nEngines
    /\ calls' = Counted
    /\ LET known == Has(handlers[e], name)
           hs == IF known THEN handlers[e][name] ELSE HandlerSet(e, name)
           l0 == IF known THEN lists
                 ELSE [lists EXCEPT ![hs.write_pairs] = <<>>,
                                    ![hs.all_pairs] = <<>>]
           l1 == [l0 EXCEPT ![hs.all_pairs] = Appended(@, pair)]
           l2 == IF HandlerPair[pair].writer # None
                 THEN [l1 EXCEPT ![hs.write_pairs] = Appended(@, pair)]
                 ELSE l1
       IN  /\ handlers' = [handlers EXCEPT ![e] =
                 [n \in DOMAIN @ \cup {name} |->
                    IF n = name THEN SetReadPair(hs, pair) ELSE @[n]]]
           /\ lists' = l2
    /\ nAdds' = nAdds + 1
    /\ bound' = [bound EXCEPT ![e][name] = Append(@, pair)]
    /\ last' = Done("add_pair", e, None, name, None, "ok", None, pair, NoLog,
                    NoSetattr)
    /\ UNCHANGED <<nEngines, guards, stack, exc>>

copy(e) ==
    /\ CanCall
    /\ e <= nEngines
    /\ nEngines < Cardinality(Engines)
    /\ calls' = Counted
    /\ LET new == nEngines + 1
       IN  /\ nEngines' = new
           /\ handlers' = [handlers EXCEPT ![new] =
                 [n \in DOMAIN handlers[e] |->
                    HandlerSet_copy(handlers[e][n], new, n, lists).set]]
           /\ lists' = [r \in ListRefs |->
                 IF r[1] = new /\ Has(handlers[e], r[2])
                 THEN HandlerSet_copy(handlers[e][r[2]], new, r[2], lists).lists[r]
                 ELSE lists[r]]
           /\ guards' = NewGuards(guards, e, new)
           /\ bound' = [bound EXCEPT ![new] = bound[e]]
    /\ last' = Done("copy", e, None, None, None, "ok", None, None, NoLog,
                    NoSetattr)
    /\ UNCHANGED <<nAdds, stack, exc>>

\* Fault: read returns the sentinel when the key of read_pair is guarded.
read_guarded(e, owner, name) ==
    /\ CanCall
    /\ e <= nEngines
    /\ calls' = Counted
    /\ IF Bound(handlers[e], name)
          /\ Key(owner, handlers[e][name].read_pair) \notin guards[e]
       THEN LET pair == handlers[e][name].read_pair
            IN  /\ stack' = Append(stack,
                      Frame("read", e, owner, name, None, "reader", pair,
                            ReaderArgs(owner, name), 0,
                            <<Ran(pair, ReaderArgs(owner, name))>>))
                /\ last' = NoCall
       ELSE /\ last' = Done("read", e, owner, name, None, "ok",
                            NotImplemented, None, NoLog, NoSetattr)
            /\ UNCHANGED stack
    /\ UNCHANGED <<nEngines, handlers, lists, guards, nAdds, exc, bound>>

read(e, owner, name) ==
    /\ CanCall
    /\ e <= nEngines
    /\ calls' = Counted
    /\ IF Bound(handlers[e], name)
       THEN LET pair == handlers[e][name].read_pair
            IN  /\ stack' = Append(stack,
                      Frame("read", e, owner, name, None, "reader", pair,
                            ReaderArgs(owner, name), 0,
                            <<Ran(pair, ReaderArgs(owner, name))>>))
                /\ last' = NoCall
       ELSE /\ last' = Done("read", e, owner, name, None, "ok",
                            NotImplemented, None, NoLog, NoSetattr)
            /\ UNCHANGED stack
    /\ UNCHANGED <<nEngines, handlers, lists, guards, nAdds, exc, bound>>

write(e, owner, name, change) ==
    /\ CanCall
    /\ e <= nEngines
    /\ calls' = Counted
    /\ IF ~Has(handlers[e], name)
       THEN /\ last' = Done("write", e, owner, name, change, "ok",
                            None, None, NoLog, NoSetattr)
            /\ UNCHANGED <<stack, guards>>
       ELSE LET wp == lists[handlers[e][name].write_pairs]
                s == Scan(wp, 1, owner, guards[e], NoLog)
                args == WriterArgs(owner, name, change)
            IN  IF s.run
                THEN /\ guards' = [guards EXCEPT ![e] =
                           Acquire(@, Key(owner, wp[s.idx]))]
                     /\ stack' = Append(stack,
                           Frame("write", e, owner, name, change, "writer",
                                 wp[s.idx], args, s.idx,
                                 Append(s.log, Ran(wp[s.idx], args))))
                     /\ last' = NoCall
                ELSE /\ last' = Done("write", e, owner, name, change, "ok",
                                     None, None, s.log, NoSetattr)
                     /\ UNCHANGED <<stack, guards>>
    /\ UNCHANGED <<nEngines, handlers, lists, nAdds, exc, bound>>

\* Fault: update without the test "key not in guards".
update_unguarded(e, owner, name) ==
    /\ CanCall
    /\ e <= nEngines
    /\ calls' = Counted
    /\ IF ~Bound(handlers[e], name)
       THEN /\ last' = Done("update", e, owner, name, None, "ok",
                            None, None, NoLog, NoSetattr)
            /\ UNCHANGED <<stack, guards>>
       ELSE LET pair == handlers[e][name].read_pair
            IN  /\ guards' = [guards EXCEPT ![e] =
                      Acquire(@, Key(owner, pair))]
                /\ stack' = Append(stack,
                      Frame("update", e, owner, name, None, "reader", pair,
                            ReaderArgs(owner, name), 0,
                            <<Ran(pair, ReaderArgs(owner, name))>>))
                /\ last' = NoCall
    /\ UNCHANGED <<nEngines, handlers, lists, nAdds, exc, bound>>

\* Fault: update is skipped only if the key is held by a call on the same name.
update_keyed_by_name(e, owner, name) ==
    /\ CanCall
    /\ e <= nEngines
    /\ calls' = Counted
    /\ IF ~Bound(handlers[e], name)
       THEN /\ last' = Done("update", e, owner, name, None, "ok",
                            None, None, NoLog, NoSetattr)
            /\ UNCHANGED <<stack, guards>>
       ELSE LET pair == handlers[e][name].read_pair
            IN  IF \E i \in 1..Len(stack) :
                      /\ stack[i].op \in {"write", "update"}
                      /\ stack[i].eng = e
                      /\ stack[i].owner = owner
                      /\ stack[i].pair = pair
                      /\ stack[i].name = name
                THEN /\ last' = Done("update", e, owner, name, None, "ok",
                                     None, None, <<Skipped(pair)>>, NoSetattr)
                     /\ UNCHANGED <<stack, guards>>
                ELSE /\ guards' = [guards EXCEPT ![e] =
                           Acquire(@, Key(owner, pair))]
                     /\ stack' = Append(stack,
                           Frame("update", e, owner, name, None, "reader", pair,
                                 ReaderArgs(owner, name), 0,
                                 <<Ran(pair, ReaderArgs(owner, name))>>))
                     /\ last' = NoCall
    /\ UNCHANGED <<nEngines, handlers, lists, nAdds, exc, bound>>

update(e, owner, name) ==
    /\ CanCall
    /\ e <= nEngines
    /\ calls' = Counted
    /\ IF ~Bound(handlers[e], name)
       THEN /\ last' = Done("update", e, owner, name, None, "ok",
                            None, None, NoLog, NoSetattr)
            /\ UNCHANGED <<stack, guards>>
       ELSE LET pair == handlers[e][name].read_pair
            IN  IF Key(owner, pair) \in guards[e]
                THEN /\ last' = Done("update", e, owner, name, None, "ok",
                                     None, None, <<Skipped(pair)>>, NoSetattr)
                     /\ UNCHANGED <<stack, guards>>
                ELSE /\ guards' = [guards EXCEPT ![e] =
                           Acquire(@, Key(owner, pair))]
                     /\ stack' = Append(stack,
                           Frame("update", e, owner, name, None, "reader", pair,
                                 ReaderArgs(owner, name), 0,
                                 <<Ran(pair, ReaderArgs(owner, name))>>))
                     /\ last' = NoCall
    /\ UNCHANGED <<nEngines, handlers, lists, nAdds, exc, bound>>

(* ------------------------ handlers returning -------------------------- *)
\* The running writer returns: the finally clause removes its key and the
\* for loop of write goes on with the list as it is now.
WriterReturn ==
    /\ stack # <<>>
    /\ ~exc
    /\ Top.pc = "writer"
    /\ LET f == Top
           g == Release(guards[f.eng], Key(f.owner, f.pair))
           wp == lists[handlers[f.eng][f.name].write_pairs]
           s == Scan(wp, f.idx + 1, f.owner, g, Mark(f.log, "ok"))
           args == WriterArgs(f.owner, f.name, f.change)
       IN  IF s.run
           THEN /\ guards' = [guards EXCEPT ![f.eng] =
                      Acquire(g, Key(f.owner, wp[s.idx]))]
                /\ stack' = Append(Below,
                      [f EXCEPT !.pair = wp[s.idx], !.idx = s.idx, !.args = args,
                                !.log = Append(s.log, Ran(wp[s.idx], args))])
                /\ last' = NoCall
                /\ UNCHANGED calls
           ELSE /\ guards' = [guards EXCEPT ![f.eng] = g]
                /\ stack' = Below
                /\ calls' = Settled
                /\ last' = Done("write", f.eng, f.owner, f.name, f.change, "ok",
                                None, None, s.log, NoSetattr)
    /\ UNCHANGED <<nEngines, handlers, lists, nAdds, exc, bound>>

\* The running reader returns v.  read returns it to its caller; update
\* passes it to setattr, which either assigns it and dispatches the owner's
\* change notification, or rejects it and raises.
ReaderReturn(v) ==
    /\ stack # <<>>
    /\ ~exc
    /\ Top.pc = "reader"
    /\ LET f == Top
       IN  \/ /\ f.op = "read"
              /\ stack' = Below
              /\ calls' = Settled
              /\ last' = Done("read", f.eng, f.owner, f.name, None, "ok",
                              ReadResult(v), v, Mark(f.log, "ok"), NoSetattr)
              /\ UNCHANGED <<guards, exc>>
           \/ /\ f.op = "update"
              /\ stack' = Append(Below,
                    [f EXCEPT !.pc = "notify", !.hval = v,
                              !.log = Mark(f.log, "ok"),
                              !.setattr = <<f.owner, f.name, v>>])
              /\ last' = NoCall
              /\ UNCHANGED <<guards, exc, calls>>
           \/ /\ f.op = "update"
              /\ guards' = [guards EXCEPT ![f.eng] =
                    Release(@, Key(f.owner, f.pair))]
              /\ stack' = Below
              /\ exc' = (Below # <<>>)
              /\ calls' = Settled
              /\ last' = Done("update", f.eng, f.owner, f.name, None, "raise",
                              None, v, Mark(f.log, "ok"), NoSetattr)
    /\ UNCHANGED <<nEngines, handlers, lists, nAdds, bound>>

\* setattr returns: the finally clause of update removes the key.
NotifyReturn ==
    /\ stack # <<>>
    /\ ~exc
    /\ Top.pc = "notify"
    /\ LET f == Top
       IN  /\ guards' = [guards EXCEPT ![f.eng] =
                 Release(@, Key(f.owner, f.pair))]
           /\ stack' = Below
           /\ calls' = Settled
           /\ last' = Done("update", f.eng, f.owner, f.name, None, "ok",
                           None, f.hval, f.log, f.setattr)
    /\ UNCHANGED <<nEngines, handlers, lists, nAdds, exc, bound>>

\* Fault: write catches the exception of a writer and goes on with the loop.
RaiseSwallowed ==
    /\ stack # <<>>
    /\ LET f == Top
       IN  IF f.pc = "writer"
           THEN LET g == Release(guards[f.eng], Key(f.owner, f.pair))
                    wp == lists[handlers[f.eng][f.name].write_pairs]
                    s == Scan(wp, f.idx + 1, f.owner, g, Mark(f.log, "raise"))
                    args == WriterArgs(f.owner, f.name, f.change)
                IN  /\ exc' = FALSE
                    /\ IF s.run
                       THEN /\ guards' = [guards EXCEPT ![f.eng] =
                                  Acquire(g, Key(f.owner, wp[s.idx]))]
                            /\ stack' = Append(Below,
                                  [f EXCEPT !.pair = wp[s.idx], !.idx = s.idx,
                                            !.log = Append(s.log,
                                               Ran(wp[s.idx], args))])
                            /\ last' = NoCall
                            /\ UNCHANGED calls
                       ELSE /\ guards' = [guards EXCEPT ![f.eng] = g]
                            /\ stack' = Below
                            /\ calls' = Settled
                            /\ last' = Done("write", f.eng, f.owner, f.name,
                                            f.change, "ok", None, None, s.log,
                                            NoSetattr)
           ELSE /\ guards' = [guards EXCEPT ![f.eng] =
                      IF f.op = "read" THEN @
                      ELSE Release(@, Key(f.owner, f.pair))]
                /\ stack' = Below
                /\ exc' = (Below # <<>>)
                /\ calls' = Settled
                /\ last' = Done(f.op, f.eng, f.owner, f.name, f.change, "raise",
                                None, f.hval,
                                IF f.pc = "notify" THEN f.log
                                ELSE Mark(f.log, "raise"),
                                f.setattr)
    /\ UNCHANGED <<nEngines, handlers, lists, nAdds, bound>>

\* Fault: update catches the exception of the reader or of setattr and returns.
RaiseCaughtByUpdate ==
    /\ stack # <<>>
    /\ LET f == Top
       IN  /\ guards' = [guards EXCEPT ![f.eng] =
                 IF f.op = "read" THEN @ ELSE Release(@, Key(f.owner, f.pair))]
           /\ stack' = Below
           /\ exc' = (f.op # "update" /\ Below # <<>>)
           /\ calls' = Settled
           /\ last' = Done(f.op, f.eng, f.owner, f.name, f.change,
                           IF f.op = "update" THEN "ok" ELSE "raise",
                           None, f.hval,
                           IF f.pc = "notify" THEN f.log ELSE Mark(f.log, "raise"),
                           f.setattr)
    /\ UNCHANGED <<nEngines, handlers, lists, nAdds, bound>>

\* The running handler raises, of its own or because an engine call it made
\* raised and it does not catch the exception.  write and update run their
\* finally clause; no except clause catches the exception, so the engine
\* call ends and the exception reaches its caller.
Raise ==
    /\ stack # <<>>
    /\ LET f == Top
       IN  /\ guards' = [guards EXCEPT ![f.eng] =
                 IF f.op = "read" THEN @ ELSE Release(@, Key(f.owner, f.pair))]
           /\ stack' = Below
           /\ exc' = (Below # <<>>)
           /\ calls' = Settled
           /\ last' = Done(f.op, f.eng, f.owner, f.name, f.change, "raise",
                           None, f.hval,
                           IF f.pc = "notify" THEN f.log ELSE Mark(f.log, "raise"),
                           f.setattr)
    /\ UNCHANGED <<nEngines, handlers, lists, nAdds, bound>>

\* The running handler catches the exception of the engine call it made.
Catch ==
    /\ exc
    /\ exc' = FALSE
    /\ UNCHANGED <<nEngines, handlers, lists, guards, nAdds, stack,
                   calls, last, bound>>

(* --------------------------- specifications -------------------------- *)
\* The engine calls the environment (the binder, the owner's notification
\* path, or a running handler) makes, with arguments from the given sets.
Calls(E, O, N, P, C) ==
    \/ \E e \in E, n \in N, p \in P : nAdds < MaxAdds /\ add_pair(e, n, p)
    \/ \E e \in E, o \in O, n \in N : read(e, o, n)
    \/ \E e \in E, o \in O, n \in N, c \in C : write(e, o, n, c)
    \/ \E e \in E, o \in O, n \in N : update(e, o, n)

\* The steps of the handlers that are running.
Returns ==
    \/ WriterReturn
    \/ \E v \in Values : ReaderReturn(v)
    \/ NotifyReturn
    \/ Raise

\* One engine and one attribute: the handlers re-enter the engine, for either
\* owner, and may catch the exceptions of the calls they make.
Next ==
    \/ Calls({1}, Owners, {"x"}, Pairs, Changes)
    \/ Returns
    \/ Catch

Spec == Init /\ [][Next]_vars

\* An engine and its copy, two attributes, one owner: the binder and the
\* owner call the engines from outside, and a running handler may copy one.
NextBind ==
    \/ stack = <<>> /\ Calls(Engines, {"o1"}, Names, Pairs, {"c1"})
    \/ \E e \in Engines : copy(e)
    \/ Returns

SpecBind == Init /\ [][NextBind]_vars

\* One engine, one owner, two attributes: the binder and the owner call the
\* engine from outside, and the running handlers re-enter it through write
\* and update only.
NextNest ==
    \/ stack = <<>> /\ Calls({1}, {"o1"}, Names, Pairs, {"c1"})
    \/ \E n \in Names : stack # <<>> /\ write(1, "o1", n, "c2")
    \/ \E n \in Names : stack # <<>> /\ update(1, "o1", n)
    \/ Returns

SpecNest == Init /\ [][NextNest]_vars

\* ... and every handler that is running eventually returns or raises.
SpecNestFair == SpecNest /\ WF_vars(Returns)

(* ----------------------------- properties ---------------------------- *)
\* the calls that are running, and those that hold a guard key
Running == {stack[i] : i \in 1..Len(stack)}
Guarded(f) == f.op \in {"write", "update"}
HeldKeys(e) == {Key(f.owner, f.pair) : f \in {h \in Running : h.eng = e /\ Guarded(h)}}

HasReader(p) == HandlerPair[p].reader # None
HasWriter(p) == HandlerPair[p].writer # None

\* the fields of the HandlerSet of a name, as the engine holds them now
ReadPairOf(e, n) ==
    IF Has(handlers[e], n) THEN handlers[e][n].read_pair ELSE None
WritePairsOf(e, n) ==
    IF Has(handlers[e], n) THEN lists[handlers[e][n].write_pairs] ELSE <<>>
AllPairsOf(e, n) ==
    IF Has(handlers[e], n) THEN lists[handlers[e][n].all_pairs] ELSE <<>>
View(e, n) ==
    <<Has(handlers[e], n), ReadPairOf(e, n), WritePairsOf(e, n), AllPairsOf(e, n)>>

\* the last pair of a sequence that has a reader, or None
RECURSIVE LastReader(_)
LastReader(seq) ==
    IF seq = <<>> THEN None
    ELSE IF HasReader(seq[Len(seq)]) THEN seq[Len(seq)]
         ELSE LastReader(SubSeq(seq, 1, Len(seq) - 1))

\* C1: while the writer of pair P runs for owner O, a write for O on the same
\* engine that completes has skipped every occurrence of P; no two writers of
\* the same pair run for the same owner at once; and once a write has ended,
\* by return or by error, the keys of the writers it ran are not guarded.
C1_NestedWriteSkipsRunningPair ==
    /\ \A i \in 1..Len(stack) :
          (/\ stack[i].pc = "writer"
           /\ last.op = "write"
           /\ last.eng = stack[i].eng
           /\ last.owner = stack[i].owner)
          => \A j \in 1..Len(last.log) :
                last.log[j].pair = stack[i].pair => last.log[j].out = "skip"
    /\ \A i, j \in 1..Len(stack) :
          (/\ i < j
           /\ stack[i].pc = "writer"
           /\ stack[j].pc = "writer"
           /\ stack[i].eng = stack[j].eng
           /\ stack[i].owner = stack[j].owner)
          => stack[i].pair # stack[j].pair
    /\ last.op = "write"
       => \A j \in 1..Len(last.log) :
             last.log[j].out \in {"ok", "raise"}
             => Key(last.owner, last.log[j].pair) \notin guards[last.eng]

\* C1 witness: A's writer runs for an owner, and a write it triggered for the
\* same owner with another change has just completed, having skipped A.
C1_Witness ==
    \E i \in 1..Len(stack) :
       /\ stack[i].pc = "writer"
       /\ stack[i].pair = "A"
       /\ last.op = "write"
       /\ last.owner = stack[i].owner
       /\ last.change # stack[i].change
       /\ last.log = <<Skipped("A")>>

\* C2: every running write or update holds its key; when no write or update
\* is running every guard set is empty; a pair that a completed call skipped
\* is still guarded, and a call that only skipped has not raised.
C2_GuardsReleased ==
    /\ \A f \in Running : Guarded(f) => Key(f.owner, f.pair) \in guards[f.eng]
    /\ (\A f \in Running : ~Guarded(f)) => \A e \in Engines : guards[e] = {}
    /\ last.op \in {"write", "update"}
       => /\ \A j \in 1..Len(last.log) :
                last.log[j].out = "skip"
                => Key(last.owner, last.log[j].pair) \in guards[last.eng]
          /\ (\A j \in 1..Len(last.log) : last.log[j].out = "skip")
             => last.outcome = "ok"

\* C2 witness: an update made by a running writer has raised into it; the
\* writer's key is the only key that is guarded.
C2_Witness ==
    /\ stack # <<>>
    /\ exc
    /\ last.op = "update"
    /\ last.outcome = "raise"
    /\ Top.pc = "writer"
    /\ guards[Top.eng] = {Key(Top.owner, Top.pair)}

\* C3: a write that returns has considered exactly the write-capable pairs
\* bound to the name, in binding order; each was either invoked with the
\* owner, name and change of the call and returned, or skipped because its
\* key is guarded; called from outside, it has invoked every one of them.
C3_WritersInBindingOrder ==
    (last.op = "write" /\ last.outcome = "ok")
    => LET want == SelectSeq(bound[last.eng][last.name], HasWriter)
       IN  /\ Len(last.log) = Len(want)
           /\ \A j \in 1..Len(last.log) :
                 /\ last.log[j].pair = want[j]
                 /\ \/ /\ last.log[j].out = "ok"
                       /\ last.log[j].args = <<last.owner, last.name, last.change>>
                    \/ /\ last.log[j].out = "skip"
                       /\ stack # <<>>
                       /\ Key(last.owner, want[j]) \in guards[last.eng]

\* C3 witness: with A then B bound, a write from outside has run A then B.
C3_Witness ==
    /\ stack = <<>>
    /\ last.op = "write"
    /\ last.outcome = "ok"
    /\ Len(last.log) = 2
    /\ last.log[1].pair = "A" /\ last.log[1].out = "ok"
    /\ last.log[2].pair = "B" /\ last.log[2].out = "ok"

\* C4: read_pair is the last bound pair that has a reader, or None, and a
\* running read or update evaluates the reader of that pair.
C4_ReadPairLastReader ==
    /\ \A e \in Engines, n \in Names : ReadPairOf(e, n) = LastReader(bound[e][n])
    /\ \A f \in Running :
          f.pc = "reader"
          => /\ f.pair = LastReader(bound[f.eng][f.name])
             /\ f.args = <<f.owner, f.name>>

\* C4 witness: A then B were bound to x, and an update evaluates A's reader.
C4_Witness ==
    \E f \in Running :
       /\ f.op = "update"
       /\ f.pc = "reader"
       /\ f.pair = "A"
       /\ bound[f.eng][f.name] = <<"A", "B">>

\* C5: write_pairs is the subsequence of the bound pairs that have a writer,
\* all_pairs is the sequence of the bound pairs, duplicates included, and
\* read_pair and the elements of write_pairs are elements of all_pairs.
C5_ListsFollowBinding ==
    \A e \in Engines, n \in Names :
       /\ Has(handlers[e], n) <=> bound[e][n] # <<>>
       /\ WritePairsOf(e, n) = SelectSeq(bound[e][n], HasWriter)
       /\ AllPairsOf(e, n) = bound[e][n]
       /\ \A i \in 1..Len(WritePairsOf(e, n)) :
             \E k \in 1..Len(AllPairsOf(e, n)) :
                AllPairsOf(e, n)[k] = WritePairsOf(e, n)[i]
       /\ ReadPairOf(e, n) # None
          => \E k \in 1..Len(AllPairsOf(e, n)) :
                AllPairsOf(e, n)[k] = ReadPairOf(e, n)

\* C5 witness: the same pair was bound twice to a name.
C5_Witness ==
    \E e \in Engines, n \in Names :
       /\ AllPairsOf(e, n) = <<"A", "A">>
       /\ WritePairsOf(e, n) = <<"A", "A">>

\* C6: right after copy() the copy has the read_pair, write_pairs and
\* all_pairs of the original for every name, and an add_pair on one engine
\* leaves every HandlerSet of the other engine as it was.
C6_CopyIndependent ==
    /\ [](last.op = "copy"
          => \A n \in Names : View(nEngines, n) = View(last.eng, n))
    /\ [][\A e \in Engines :
             (last'.op = "add_pair" /\ last'.eng # e)
             => \A n \in Names : View(e, n)' = View(e, n)]_vars

\* C6 witness: both engines have a HandlerSet for a name, and they differ.
C6_Witness ==
    /\ nEngines = 2
    /\ \E n \in Names :
          /\ Has(handlers[1], n)
          /\ Has(handlers[2], n)
          /\ View(1, n) # View(2, n)

\* C7: a write that raises has invoked the write-capable pairs in binding
\* order up to the writer that raised and none after it; that writer's key
\* is not guarded; a write that is running or has returned had no writer
\* raise.
C7_WriteAbortsOnError ==
    /\ (last.op = "write" /\ last.outcome = "raise")
       => LET want == SelectSeq(bound[last.eng][last.name], HasWriter)
              k == Len(last.log)
          IN  /\ 1 <= k /\ k <= Len(want)
              /\ \A j \in 1..k : last.log[j].pair = want[j]
              /\ \A j \in 1..(k - 1) : last.log[j].out \in {"ok", "skip"}
              /\ last.log[k].out = "raise"
              /\ Key(last.owner, last.log[k].pair) \notin guards[last.eng]
    /\ (last.op = "write" /\ last.outcome = "ok")
       => \A j \in 1..Len(last.log) : last.log[j].out # "raise"
    /\ \A f \in Running : \A j \in 1..Len(f.log) : f.log[j].out # "raise"

\* C7 witness: A then B are bound, A's writer raised, B's was not invoked.
C7_Witness ==
    /\ last.op = "write"
    /\ last.outcome = "raise"
    /\ WritePairsOf(last.eng, last.name) = <<"A", "B">>
    /\ Len(last.log) = 1
    /\ last.log[1].pair = "A"

\* a step that completes a call by returning, with no handler invoked, no
\* setattr, and the guard sets and the running calls as they were
NoOpStep ==
    /\ last'.outcome = "ok"
    /\ last'.log = NoLog
    /\ last'.setattr = NoSetattr
    /\ guards' = guards
    /\ stack' = stack
    /\ exc' = exc

\* C8: an update on a name with no HandlerSet, or with a HandlerSet that has
\* no read_pair, and a write on a name with no HandlerSet, are no-ops.
C8_UnboundIsNoOp ==
    [][/\ (last'.op = "update" /\ (ReadPairOf(last.eng, last.name) = None)')
          => NoOpStep
       /\ (last'.op = "write" /\ (last.name \notin DOMAIN handlers[last.eng])')
          => NoOpStep]_vars

\* C8 witness: inside a running writer, whose key is guarded, an update of a
\* name that has a HandlerSet but no read_pair has completed.
C8_Witness ==
    /\ last.op = "update"
    /\ Has(handlers[last.eng], last.name)
    /\ ReadPairOf(last.eng, last.name) = None
    /\ stack # <<>>
    /\ guards[last.eng] # {}

\* C9: a read that returns gives the sentinel exactly when the name has no
\* HandlerSet or no read_pair, and otherwise the value its reader returned.
C9_ReadSentinel ==
    (last.op = "read" /\ last.outcome = "ok")
    => /\ last.val = NotImplemented <=> ReadPairOf(last.eng, last.name) = None
       /\ ReadPairOf(last.eng, last.name) # None
          => /\ last.val = last.hval
             /\ Len(last.log) = 1
             /\ HasReader(last.log[1].pair)
             /\ last.log[1].args = <<last.owner, last.name>>

\* C9 witness: a reader evaluated to the null-like value and read returned it.
C9_Witness ==
    /\ last.op = "read"
    /\ last.outcome = "ok"
    /\ last.hval = "null"
    /\ last.val = "null"

\* C10: each engine's guard set holds the keys of the calls running on that
\* engine and no others; copy() gives the new engine an empty guard set and
\* leaves the guard sets, handler maps and lists of the other engines as
\* they were.
C10_CopyFreshGuards ==
    /\ [](\A e \in Engines : guards[e] = HeldKeys(e))
    /\ [][nEngines' # nEngines
          => /\ guards'[nEngines'] = {}
             /\ \A e \in Engines \ {nEngines'} :
                   /\ guards'[e] = guards[e]
                   /\ handlers'[e] = handlers[e]
             /\ \A r \in ListRefs : r[1] # nEngines' => lists'[r] = lists[r]]_vars

\* C10 witness: copy() has been called by a handler while keys are guarded.
C10_Witness ==
    /\ last.op = "copy"
    /\ stack # <<>>
    /\ guards[last.eng] # {}
    /\ guards[nEngines] = {}

\* C11: an engine is true exactly when an add_pair has been made on it, or on
\* the engine it was copied from before the copy: a new engine is false, an
\* add_pair of any pair makes it true, no step makes a true engine false, and
\* right after copy() the copy is true exactly when the original is.
C11_TrueIffBound ==
    /\ [](\A e \in Engines :
             __nonzero__(e) <=> \E n \in Names : bound[e][n] # <<>>)
    /\ [](nAdds = 0 => \A e \in Engines : ~__nonzero__(e))
    /\ [](last.op = "add_pair" => __nonzero__(last.eng))
    /\ [](last.op = "copy" => (__nonzero__(nEngines) <=> __nonzero__(last.eng)))
    /\ [][\A e \in Engines : __nonzero__(e) => __nonzero__(e)']_vars

\* C11 witness: the only binding is a pair with neither reader nor writer,
\* and the engine, which is true, has just been copied.
C11_Witness ==
    /\ last.op = "copy"
    /\ __nonzero__(last.eng)
    /\ __nonzero__(nEngines)
    /\ \E n \in Names : bound[nEngines][n] = <<"D">>
    /\ \A n \in Names : bound[nEngines][n] \in {<<>>, <<"D">>}

\* the running calls that hold the key of an owner and a pair on an engine
Holders(e, owner, pair) ==
    {i \in 1..Len(stack) :
        /\ Guarded(stack[i])
        /\ stack[i].eng = e
        /\ stack[i].owner = owner
        /\ stack[i].pair = pair}

\* C12: while an update runs for read pair P and owner O, a write for O on the
\* same engine that completes has not invoked P's writer: it skipped exactly
\* the pairs whose handler is running for O, and invoked the others; when it
\* returns it has gone through write_pairs in order, and every writer it
\* invoked got the owner, name and change of the call and returned.
C12_WriteInsideUpdate ==
    \A i \in 1..Len(stack) :
       (/\ stack[i].op = "update"
        /\ last.op = "write"
        /\ last.eng = stack[i].eng
        /\ last.owner = stack[i].owner)
       => /\ \A j \in 1..Len(last.log) :
                /\ last.log[j].pair = stack[i].pair => last.log[j].out = "skip"
                /\ last.log[j].out = "skip"
                   <=> Holders(last.eng, last.owner, last.log[j].pair) # {}
          /\ last.outcome = "ok"
             => /\ Len(last.log) = Len(WritePairsOf(last.eng, last.name))
                /\ \A j \in 1..Len(last.log) :
                      /\ last.log[j].pair = WritePairsOf(last.eng, last.name)[j]
                      /\ last.log[j].out # "skip"
                         => /\ last.log[j].out = "ok"
                            /\ last.log[j].args =
                                  <<last.owner, last.name, last.change>>

\* C12 witness: update assigns the value of A's reader to the owner's
\* attribute, and the write this triggers has skipped A and run B's writer.
C12_Witness ==
    /\ stack # <<>>
    /\ Top.op = "update"
    /\ Top.pc = "notify"
    /\ Top.pair = "A"
    /\ last.op = "write"
    /\ last.owner = Top.owner
    /\ last.name = Top.name
    /\ last.outcome = "ok"
    /\ Len(last.log) = 2
    /\ last.log[1] = Skipped("A")
    /\ last.log[2].pair = "B"
    /\ last.log[2].out = "ok"

\* C13: while the writer of pair P runs for owner O, an update for O on the
\* same engine that found P as read_pair has done nothing: it returned
\* without error, evaluated no reader and assigned no attribute, P is still
\* the read_pair and the key (O, P) is still guarded; the step that makes
\* such an update leaves the guard sets and the running calls as they were.
C13_UpdateInsideWriter ==
    /\ [](\A i \in 1..Len(stack) :
             (/\ stack[i].pc = "writer"
              /\ last.op = "update"
              /\ last.eng = stack[i].eng
              /\ last.owner = stack[i].owner
              /\ last.log # NoLog
              /\ last.log[1].pair = stack[i].pair)
             => /\ last.log = <<Skipped(stack[i].pair)>>
                /\ last.outcome = "ok"
                /\ last.hval = None
                /\ last.setattr = NoSetattr
                /\ ReadPairOf(last.eng, last.name) = stack[i].pair
                /\ <<stack[i].owner, stack[i].pair>> \in guards[stack[i].eng])
    /\ [][(/\ last'.op = "update"
           /\ last'.log # NoLog
           /\ last'.log[1].out = "skip")
          => /\ stack' = stack
             /\ guards' = guards]_vars

\* C13 witness: A's writer runs inside write, and the update it made for the
\* same owner, on the attribute whose read_pair is A, has been skipped.
C13_Witness ==
    /\ stack # <<>>
    /\ Top.op = "write"
    /\ Top.pc = "writer"
    /\ Top.pair = "A"
    /\ last.op = "update"
    /\ last.owner = Top.owner
    /\ last.name = Top.name
    /\ last.log = <<Skipped("A")>>
    /\ ReadPairOf(last.eng, last.name) = "A"
    /\ guards[Top.eng] = {<<Top.owner, "A">>}

\* C14: an update that ended by an error has removed its key, whether the
\* reader raised or setattr did; if the reader raised, no attribute was
\* assigned; the error is passed to the caller of update, which is the
\* running handler if there is one; and an update whose reader raised never
\* returns normally.
C14_UpdateRaiseReleases ==
    /\ [](last.op = "update" /\ last.outcome = "raise"
          => /\ Len(last.log) = 1
             /\ <<last.owner, last.log[1].pair>> \notin guards[last.eng]
             /\ last.log[1].out \in {"ok", "raise"}
             /\ last.log[1].out = "raise"
                => /\ last.setattr = NoSetattr
                   /\ last.hval = None)
    /\ [](last.op = "update" /\ last.outcome = "ok"
          => \A j \in 1..Len(last.log) : last.log[j].out # "raise")
    /\ [](\A f \in Running :
             f.op = "update" /\ f.pc = "reader" => f.setattr = NoSetattr)
    /\ [][(/\ last'.op = "update"
           /\ last'.outcome = "raise"
           /\ stack' # stack)
          => /\ Len(stack') = Len(stack) - 1
             /\ exc' = (stack' # <<>>)]_vars

\* C14 witness: the reader of an update made by a running writer has raised;
\* the exception is in the writer, and only the writer's key is guarded.
C14_Witness ==
    /\ stack # <<>>
    /\ exc
    /\ Top.pc = "writer"
    /\ last.op = "update"
    /\ last.outcome = "raise"
    /\ last.log[1].out = "raise"
    /\ last.setattr = NoSetattr
    /\ last.owner # Top.owner
    /\ last.log[1].pair = Top.pair
    /\ guards[Top.eng] = {<<Top.owner, Top.pair>>}

\* C15: a read on a name that has a read_pair has evaluated its reader,
\* whatever the guard set holds, and a running read evaluates a reader; the
\* step that calls read, and the step in which read returns or raises, leave
\* every guard set as it was.
C15_ReadUnguarded ==
    /\ [](last.op = "read" /\ ReadPairOf(last.eng, last.name) # None
          => /\ Len(last.log) = 1
             /\ last.log[1].out \in {"ok", "raise"}
             /\ HasReader(last.log[1].pair))
    /\ [](\A f \in Running : f.op = "read" => f.pc = "reader")
    /\ [][/\ (Len(stack') = Len(stack) + 1 /\ stack'[Len(stack')].op = "read")
             => guards' = guards
          /\ (stack # <<>> /\ Top.op = "read" /\ Len(stack') = Len(stack) - 1)
             => guards' = guards
          /\ (last'.op = "read" /\ stack' = stack)
             => guards' = guards]_vars

\* C15 witness: during an update of pair A for an owner, whose key is
\* guarded, a read for the same owner evaluates A's reader.
C15_Witness ==
    /\ Len(stack) = 2
    /\ stack[1].op = "update"
    /\ stack[1].pair = "A"
    /\ stack[2].op = "read"
    /\ stack[2].pc = "reader"
    /\ stack[2].pair = "A"
    /\ stack[2].owner = stack[1].owner
    /\ <<stack[2].owner, stack[2].pair>> \in guards[stack[2].eng]

\* C16: a write or update that has completed skipped a pair exactly when a
\* handler of that pair is running on the same engine for the same owner; a
\* handler of the pair running for another owner suppresses nothing.
C16_GuardPerOwnerAndPair ==
    last.op \in {"write", "update"}
    => \A j \in 1..Len(last.log) :
          /\ last.log[j].out \in {"skip", "ok", "raise"}
          /\ last.log[j].out = "skip"
             <=> Holders(last.eng, last.owner, last.log[j].pair) # {}

\* C16 witness: A's writer runs for one owner, and the write it made for the
\* other owner has run A's writer.
C16_Witness ==
    /\ stack # <<>>
    /\ Top.pc = "writer"
    /\ Top.pair = "A"
    /\ last.op = "write"
    /\ last.eng = Top.eng
    /\ last.owner # Top.owner
    /\ last.log = <<[pair |-> "A", out |-> "ok",
                     args |-> <<last.owner, last.name, last.change>>]>>

\* C17: the guard set of an engine is the set of (owner, pair) of the writes
\* and updates that are inside a handler on that engine, and no two of them
\* have the same owner and pair: for an owner and a pair, at most one of the
\* pair's writer (through write) and reader or assignment (through update)
\* is in progress.
C17_MutualExclusion ==
    /\ \A e \in Engines :
          guards[e] = {<<stack[i].owner, stack[i].pair>> :
                         i \in {k \in 1..Len(stack) :
                                  Guarded(stack[k]) /\ stack[k].eng = e}}
    /\ \A e \in Engines, o \in Owners, p \in Pairs :
          Cardinality(Holders(e, o, p)) <= 1
    /\ \A i \in 1..Len(stack) :
          /\ stack[i].op = "write" => stack[i].pc = "writer"
          /\ stack[i].op = "update" => stack[i].pc \in {"reader", "notify"}

\* C17 witness: A's writer runs for one owner and, inside it, the update of
\* A's reader for the other owner; both keys are guarded.
C17_Witness ==
    /\ Len(stack) = 2
    /\ stack[1].op = "write"
    /\ stack[2].op = "update"
    /\ stack[1].pair = "A"
    /\ stack[2].pair = "A"
    /\ stack[1].owner # stack[2].owner
    /\ Cardinality(guards[1]) = 2

\* the writes and updates inside a handler on an engine, and the keys there
\* are for it: the owners of the running calls and the pairs bound to the
\* engine that have a handler
NestingDepth(e) ==
    Cardinality({i \in 1..Len(stack) : Guarded(stack[i]) /\ stack[i].eng = e})
KeySpace(e) ==
    {stack[i].owner : i \in 1..Len(stack)}
    \X {p \in Pairs :
          /\ HasReader(p) \/ HasWriter(p)
          /\ \E n \in Names : \E k \in 1..Len(AllPairsOf(e, n)) :
                AllPairsOf(e, n)[k] = p}

C19_KeyWithoutName ==
    \A i \in 1..Len(stack) :
       (/\ Guarded(stack[i])
        /\ last.op \in {"write", "update"}
        /\ last.eng = stack[i].eng
        /\ last.owner = stack[i].owner
        /\ last.name # stack[i].name)
       => /\ \A j \in 1..Len(last.log) :
                last.log[j].pair = stack[i].pair => last.log[j].out = "skip"
          /\ (/\ last.op = "update"
              /\ last.log # NoLog
              /\ last.log[1].pair = stack[i].pair)
             => /\ last.outcome = "ok"
                /\ last.hval = None
                /\ last.setattr = NoSetattr

\* C19 witness: pair A is bound to "x" and to "y"; A's writer runs in a write
\* on "x", and the update on "y" it made for the same owner was skipped.
C19_Witness ==
    /\ stack # <<>>
    /\ Top.pc = "writer"
    /\ Top.pair = "A"
    /\ Top.name = "x"
    /\ last.op = "update"
    /\ last.name = "y"
    /\ last.owner = Top.owner
    /\ ReadPairOf(last.eng, "y") = "A"
    /\ last.log = <<Skipped("A")>>
    /\ last.setattr = NoSetattr

\* a call below the top of the stack holds the key of an owner and a pair
HeldBelow(e, owner, pair) ==
    \E i \in 1..(Len(stack) - 1) :
       /\ Guarded(stack[i])
       /\ stack[i].eng = e
       /\ stack[i].owner = owner
       /\ stack[i].pair = pair

\* C20: a write from outside that returns has invoked the writer of every
\* element of write_pairs, once per occurrence; and when a writer returns,
\* write goes on with the next element of write_pairs whose key is not held
\* by a call that is still running, whether or not that pair's writer has
\* already run in a call the writer made, and ends only when every element
\* left is held by such a call.
C20_OnlyRunningSuppressed ==
    /\ [](last.op = "write" /\ last.outcome = "ok" /\ stack = <<>>
          => /\ Len(last.log) = Len(WritePairsOf(last.eng, last.name))
             /\ \A j \in 1..Len(last.log) :
                   last.log[j] =
                      [pair |-> WritePairsOf(last.eng, last.name)[j],
                       out |-> "ok",
                       args |-> <<last.owner, last.name, last.change>>])
    /\ [][(/\ stack # <<>>
           /\ ~exc
           /\ Top.pc = "writer"
           /\ \/ Len(stack') = Len(stack) /\ stack' # stack
              \/ Len(stack') = Len(stack) - 1 /\ last'.outcome = "ok")
          => LET f == Top
                 wp == WritePairsOf(f.eng, f.name)
                 next == IF Len(stack') = Len(stack)
                         THEN stack'[Len(stack')].idx
                         ELSE Len(wp) + 1
             IN  /\ f.idx < next
                 /\ \A k \in (f.idx + 1)..(next - 1) :
                       HeldBelow(f.eng, f.owner, wp[k])
                 /\ next <= Len(wp)
                    => /\ stack'[Len(stack')].pair = wp[next]
                       /\ stack'[Len(stack')].pc = "writer"
                       /\ ~HeldBelow(f.eng, f.owner, wp[next])]_vars

\* C20 witness: write_pairs is A then B; A's writer runs in a write from
\* outside, and the write it made for the same owner and name with another
\* change has skipped A and run B's writer, which the outer write has yet
\* to run.
C20_Witness ==
    /\ Len(stack) = 1
    /\ Top.pc = "writer"
    /\ Top.pair = "A"
    /\ Top.idx = 1
    /\ WritePairsOf(Top.eng, Top.name) = <<"A", "B">>
    /\ last.op = "write"
    /\ last.owner = Top.owner
    /\ last.name = Top.name
    /\ last.change # Top.change
    /\ last.log = <<Skipped("A"),
                    [pair |-> "B", out |-> "ok",
                     args |-> <<last.owner, last.name, last.change>>]>>

=============================================================================
